---- MODULE Spec2Model ----
(***************************************************************************)
(* Model of abtem/slicing.py: thickness resolution, slice limits, item     *)
(* unpacking, the plane-detection thickness function and the two sliced-   *)
(* atoms variants (SliceIndexedAtoms, SlicedAtoms).                        *)
(*                                                                         *)
(* Lengths are IEEE doubles with the rounding of every operation, built    *)
(* on natural numbers of any size (see below).                             *)
(* Python's None is the empty tuple <<>>, a present optional value v is    *)
(* <<v>>.  Atom indices and slice indices are 0-based, as in the code.     *)
(***************************************************************************)
EXTENDS Integers, Sequences, FiniteSets

VARIABLES phase, variant, atoms, slice_thickness, slice_index, z_padding,
          built, generator, call, result

vars == <<phase, variant, atoms, slice_thickness, slice_index, z_padding,
          built, generator, call, result>>

(***************************************************************************)
(* Bounds of the model.                                                    *)
(***************************************************************************)
MaxAtoms == 2
MaxSlices == 3

(***************************************************************************)
(* Natural numbers of any size: sequences of base-32768 digits, least      *)
(* significant first, without leading zero digits (zero is <<>>).  They    *)
(* hold the 53-bit significands of doubles and the intermediate results    *)
(* of float operations before rounding.                                    *)
(***************************************************************************)
Abs(n) == IF n < 0 THEN -n ELSE n

\* 2^k for k in 0..14
Pow2(k) ==
    <<1, 2, 4, 8, 16, 32, 64, 128, 256, 512, 1024, 2048, 4096, 8192,
      16384>>[k + 1]

RECURSIVE BFromInt(_)
BFromInt(n) == IF n = 0 THEN <<>> ELSE <<n % 32768>> \o BFromInt(n \div 32768)

RECURSIVE BToInt(_)
BToInt(a) == IF a = <<>> THEN 0 ELSE a[1] + 32768 * BToInt(Tail(a))

RECURSIVE BNorm(_)
BNorm(a) ==
    IF a # <<>> /\ a[Len(a)] = 0 THEN BNorm(SubSeq(a, 1, Len(a) - 1)) ELSE a

Digit(a, i) == IF i <= Len(a) THEN a[i] ELSE 0

RECURSIVE BCmpAt(_, _, _)
BCmpAt(a, b, i) ==
    IF i = 0 THEN 0
    ELSE IF a[i] < b[i] THEN -1
    ELSE IF a[i] > b[i] THEN 1
    ELSE BCmpAt(a, b, i - 1)

\* -1, 0 or 1 as a < b, a = b or a > b
BCmp(a, b) ==
    IF Len(a) < Len(b) THEN -1
    ELSE IF Len(a) > Len(b) THEN 1
    ELSE BCmpAt(a, b, Len(a))

RECURSIVE BAddAt(_, _, _, _)
BAddAt(a, b, i, c) ==
    IF i > Len(a) /\ i > Len(b) THEN (IF c = 0 THEN <<>> ELSE <<c>>)
    ELSE LET t == Digit(a, i) + Digit(b, i) + c
         IN  <<t % 32768>> \o BAddAt(a, b, i + 1, t \div 32768)

BAdd(a, b) == BAddAt(a, b, 1, 0)

RECURSIVE BSubAt(_, _, _, _)
BSubAt(a, b, i, c) ==
    IF i > Len(a) THEN <<>>
    ELSE LET t == a[i] - Digit(b, i) - c
         IN  IF t < 0 THEN <<t + 32768>> \o BSubAt(a, b, i + 1, 1)
             ELSE <<t>> \o BSubAt(a, b, i + 1, 0)

\* a - b for a >= b
BSub(a, b) == BNorm(BSubAt(a, b, 1, 0))

RECURSIVE BMulDigitAt(_, _, _, _)
BMulDigitAt(a, k, i, c) ==
    IF i > Len(a) THEN (IF c = 0 THEN <<>> ELSE <<c>>)
    ELSE LET t == a[i] * k + c
         IN  <<t % 32768>> \o BMulDigitAt(a, k, i + 1, t \div 32768)

\* a * k for one digit k
BMulDigit(a, k) == IF k = 0 THEN <<>> ELSE BMulDigitAt(a, k, 1, 0)

RECURSIVE BMul(_, _)
BMul(a, b) ==
    IF a = <<>> \/ b = <<>> THEN <<>>
    ELSE LET rest == BMul(a, Tail(b))
         IN  BAdd(BMulDigit(a, b[1]),
                  IF rest = <<>> THEN <<>> ELSE <<0>> \o rest)

\* a * 2^k
BShl(a, k) ==
    IF a = <<>> \/ k = 0 THEN a
    ELSE [i \in 1..(k \div 15) |-> 0] \o BMulDigit(a, Pow2(k % 15))

RECURSIVE BDivDigitAt(_, _, _, _)
BDivDigitAt(a, d, i, rem) ==
    IF i = 0 THEN <<>>
    ELSE LET cur == rem * 32768 + a[i]
         IN  BDivDigitAt(a, d, i - 1, cur % d) \o <<cur \div d>>

\* floor(a / 2^k)
BShr(a, k) ==
    IF k = 0 THEN a ELSE
    LET high == IF k \div 15 >= Len(a) THEN <<>>
                ELSE SubSeq(a, (k \div 15) + 1, Len(a))
    IN  BNorm(BDivDigitAt(high, Pow2(k % 15), Len(high), 0))

\* the number of bits of a digit
BitLength(n) == Cardinality({k \in 0..14 : n >= Pow2(k)})

BBitLength(a) ==
    IF a = <<>> THEN 0 ELSE 15 * (Len(a) - 1) + BitLength(a[Len(a)])

\* the number of trailing zero bits of a digit n # 0
TrailingZeros(n) == Cardinality({k \in 1..14 : n % Pow2(k) = 0})

RECURSIVE BTrailingZeros(_)
BTrailingZeros(a) ==
    IF a[1] = 0 THEN 15 + BTrailingZeros(Tail(a)) ELSE TrailingZeros(a[1])

\* the quotient of the two leading digits of r by the leading digit of b,
\* at most 32767
LeadingQuotient(r, b) ==
    LET q == (32768 * Digit(r, Len(b) + 1) + Digit(r, Len(b))) \div b[Len(b)]
    IN  IF q > 32767 THEN 32767 ELSE q

\* the largest of est, est - 1, est - 2 whose product with b is at most r
QuotientFrom(r, b, est) ==
    IF BCmp(BMulDigit(b, est), r) <= 0 THEN est
    ELSE IF BCmp(BMulDigit(b, est - 1), r) <= 0 THEN est - 1
    ELSE est - 2

\* floor(r / b) for r < 32768 * b and a divisor whose leading digit is
\* 16384 or more: the quotient of the leading digits is the digit or exceeds
\* it by at most 2
QuotientDigit(r, b) == QuotientFrom(r, b, LeadingQuotient(r, b))

\* <<d, r - d * b>>
DigitAndRest(r, b, d) == <<d, BSub(r, BMulDigit(b, d))>>

\* <<floor(r / b), r mod b>> for one quotient digit
DivModDigit(r, b) ==
    IF BCmp(r, b) < 0 THEN <<0, r>>
    ELSE DigitAndRest(r, b, QuotientDigit(r, b))

\* long division of the digits a[i], ..., a[1]: q holds the quotient digits
\* found so far (no leading zero digit is kept), r the running remainder,
\* dr the digit and the remainder of the step at a[i]
RECURSIVE BDivModAt(_, _, _, _, _)
BDivModFrom(a, b, i, q, dr) ==
    IF dr[1] = 0 /\ q = <<>> THEN BDivModAt(a, b, i - 1, <<>>, dr[2])
    ELSE BDivModAt(a, b, i - 1, <<dr[1]>> \o q, dr[2])

BDivModAt(a, b, i, q, r) ==
    IF i = 0 THEN <<q, r>>
    ELSE BDivModFrom(a, b, i, q, DivModDigit(BNorm(<<a[i]>> \o r), b))

\* the remainder divided by 2^s
Unscaled(qr, s) == <<qr[1], BShr(qr[2], s)>>

BDivModScaled(a, b, s) == Unscaled(BDivModAt(a, b, Len(a), <<>>, <<>>), s)

BDivModBy(a, b, s) == BDivModScaled(BShl(a, s), BShl(b, s), s)

\* <<floor(a / b), a mod b>> for b # 0, with both scaled so that the leading
\* digit of the divisor is 16384 or more
BDivMod(a, b) == BDivModBy(a, b, 15 - BitLength(b[Len(b)]))

(***************************************************************************)
(* IEEE 754 binary64 ("float", "np.float64").  A finite double is          *)
(* <<s, m, e>> with value s * m * 2^e: s is the sign (-1, 0, 1), m the     *)
(* significand with its trailing zero bits removed, so m is odd and below  *)
(* 2^53, and 0.0 is <<0, <<>>, 0>>.  Every operation computes the exact    *)
(* result and rounds it to the nearest double, ties to even, as the        *)
(* hardware does.  Infinities, NaN, subnormals and the sign of zero are    *)
(* outside the model.                                                      *)
(***************************************************************************)
Zero == <<0, <<>>, 0>>

\* s * m * 2^e with the z trailing zero bits of m moved to the exponent
Stripped(s, m, e, z) == <<s, BShr(m, z), e + z>>

\* the double s * m * 2^e for m below 2^53
Canon(s, m, e) ==
    IF s = 0 \/ m = <<>> THEN Zero
    ELSE IF m[1] % 2 = 1 THEN <<s, m, e>>
    ELSE Stripped(s, m, e, BTrailingZeros(m))

\* q, or q + 1 when the bits dropped from the significand are above the
\* half (c > 0) or at the half with q odd (c = 0)
RoundUp(q, c) ==
    IF c > 0 \/ (c = 0 /\ q[1] % 2 = 1) THEN BAdd(q, <<1>>) ELSE q

\* m without its k low bits, rounded to nearest, ties to even; q is
\* floor(m / 2^k)
RoundQuotient(m, k, q) ==
    RoundUp(q, BCmp(BSub(m, BShl(q, k)), BShl(<<1>>, k - 1)))

\* <<m rounded to 53 bits, the number of bits dropped>>
RoundBits(m) ==
    IF BBitLength(m) <= 53 THEN <<m, 0>>
    ELSE <<RoundQuotient(m, BBitLength(m) - 53, BShr(m, BBitLength(m) - 53)),
           BBitLength(m) - 53>>

RoundTo(s, mk, e) == Canon(s, mk[1], e + mk[2])

\* the double nearest to s * m * 2^e, ties to even
Round(s, m, e) == RoundTo(s, RoundBits(m), e)

\* float(n) for an integer n
Float(n) ==
    Canon(IF n < 0 THEN -1 ELSE IF n = 0 THEN 0 ELSE 1, BFromInt(Abs(n)), 0)

FNeg(a) == <<-a[1], a[2], a[3]>>
FAbs(a) == <<Abs(a[1]), a[2], a[3]>>

\* sign of a - b
FCmp(a, b) ==
    IF a[1] # b[1] THEN (IF a[1] < b[1] THEN -1 ELSE 1)
    ELSE IF a[1] = 0 THEN 0
    ELSE LET e == IF a[3] < b[3] THEN a[3] ELSE b[3]
         IN  a[1] * BCmp(BShl(a[2], a[3] - e), BShl(b[2], b[3] - e))

FLt(a, b) == FCmp(a, b) < 0
FLe(a, b) == FCmp(a, b) <= 0

\* sign and magnitude of sa * x - sb * y for c the sign of x - y
SignedDifference(sa, x, sb, y, c) ==
    IF c = 0 THEN <<0, <<>>>>
    ELSE IF c > 0 THEN <<sa, BSub(x, y)>>
    ELSE <<sb, BSub(y, x)>>

\* sign and magnitude of sa * x + sb * y
SignedSum(sa, x, sb, y) ==
    IF sa = sb THEN <<sa, BAdd(x, y)>>
    ELSE SignedDifference(sa, x, sb, y, BCmp(x, y))

RoundSigned(sm, e) == Round(sm[1], sm[2], e)

\* a + b with both significands brought to the exponent e
FAddAt(a, b, e) ==
    RoundSigned(SignedSum(a[1], BShl(a[2], a[3] - e),
                          b[1], BShl(b[2], b[3] - e)), e)

FAdd(a, b) ==
    IF a[1] = 0 THEN b
    ELSE IF b[1] = 0 THEN a
    ELSE FAddAt(a, b, IF a[3] < b[3] THEN a[3] ELSE b[3])

FSub(a, b) == FAdd(a, FNeg(b))

FMul(a, b) ==
    IF a[1] = 0 \/ b[1] = 0 THEN Zero
    ELSE Round(a[1] * b[1], BMul(a[2], b[2]), a[3] + b[3])

\* the quotient of the significands is taken to 56 or more bits; these and
\* a sticky bit for the remainder decide the rounding
QuotientShift(x, y) ==
    LET d == 56 + BBitLength(y) - BBitLength(x) IN IF d < 0 THEN 0 ELSE d

\* twice the quotient, plus 1 when the remainder is not zero
WithSticky(qr) ==
    BAdd(BMulDigit(qr[1], 2), IF qr[2] = <<>> THEN <<>> ELSE <<1>>)

FDivAt(a, b, k) ==
    Round(a[1] * b[1], WithSticky(BDivMod(BShl(a[2], k), b[2])),
          a[3] - b[3] - k - 1)

\* a / b for b # 0; the division by a power of two is exact
FDiv(a, b) ==
    IF a[1] = 0 THEN Zero
    ELSE IF b[2] = <<1>> THEN <<a[1] * b[1], a[2], a[3] - b[3]>>
    ELSE FDivAt(a, b, QuotientShift(a[2], b[2]))

\* int(np.floor(a)) and int(np.ceil(a))
FFloor(a) ==
    IF a[1] = 0 THEN 0
    ELSE IF a[3] >= 0 THEN a[1] * BToInt(BShl(a[2], a[3]))
    ELSE LET q == BToInt(BShr(a[2], -a[3]))
         IN  IF a[1] > 0 THEN q ELSE -q - 1

FCeil(a) ==
    IF a[1] = 0 THEN 0
    ELSE IF a[3] >= 0 THEN a[1] * BToInt(BShl(a[2], a[3]))
    ELSE LET q == BToInt(BShr(a[2], -a[3]))
         IN  IF a[1] > 0 THEN q + 1 ELSE -q

\* np.sum of fewer than eight doubles: numpy's pairwise summation adds them
\* in order, each addition rounded
RECURSIVE SumInOrder(_, _)
SumInOrder(acc, s) ==
    IF s = <<>> THEN acc ELSE SumInOrder(FAdd(acc, s[1]), Tail(s))

\* np.sum of 8 to 128 doubles: eight running sums over the blocks of eight,
\* combined pairwise, then the remainder in order
\* ((r1 + r2) + (r3 + r4)) + ((r5 + r6) + (r7 + r8))
RECURSIVE SumPairs(_)
SumPairs(r) ==
    IF Len(r) = 1 THEN r[1]
    ELSE SumPairs([i \in 1..(Len(r) \div 2) |-> FAdd(r[2 * i - 1], r[2 * i])])

\* running sum j of the blocks of eight: s[j] + s[8 + j] + s[16 + j] + ...
BlockSum(s, j) ==
    SumInOrder(Zero, [k \in 1..(Len(s) \div 8) |-> s[8 * (k - 1) + j]])

SumBlocks(s) ==
    SumInOrder(SumPairs([j \in 1..8 |-> BlockSum(s, j)]),
               SubSeq(s, 8 * (Len(s) \div 8) + 1, Len(s)))

\* np.sum over a tuple of floats (numpy's pairwise summation)
RECURSIVE NpSum(_)
NpSum(s) ==
    IF Len(s) < 8 THEN SumInOrder(Zero, s)
    ELSE IF Len(s) <= 128 THEN SumBlocks(s)
    ELSE LET half == Len(s) \div 2
             n2 == half - (half % 8)
         IN  FAdd(NpSum(SubSeq(s, 1, n2)), NpSum(SubSeq(s, n2 + 1, Len(s))))

\* np.cumsum / itertools.accumulate: the running sums of s, each the
\* previous one plus the next element
RECURSIVE NpCumsum(_)
NpCumsum(s) ==
    IF s = <<>> THEN <<>>
    ELSE LET head == NpCumsum(SubSeq(s, 1, Len(s) - 1))
         IN  IF head = <<>> THEN <<s[1]>>
             ELSE head \o <<FAdd(head[Len(head)], s[Len(s)])>>

\* np.isclose(a, b) with numpy's defaults rtol = 1e-5 and atol = 1e-8:
\* abs(a - b) <= atol + rtol * abs(b), evaluated in doubles
Rtol == FDiv(Float(1), Float(100000))
Atol == FDiv(Float(1), Float(100000000))

NpIsClose(a, b) ==
    FLe(FAbs(FSub(a, b)), FAdd(Atol, FMul(Rtol, FAbs(b))))

(***************************************************************************)
(* Python sequences: 0-based indexing with negative indices, and slicing   *)
(* s[first:last], which clamps out-of-range bounds instead of raising.     *)
(***************************************************************************)
None == <<>>
Some(v) == <<v>>

PyIndexOk(s, i) == -Len(s) <= i /\ i < Len(s)
PyIndex(s, i) == IF i < 0 THEN s[Len(s) + i + 1] ELSE s[i + 1]

PyBound(n, i) == IF i < 0 THEN (IF n + i < 0 THEN 0 ELSE n + i)
                 ELSE (IF i > n THEN n ELSE i)
PySlice(s, first, last) ==
    SubSeq(s, PyBound(Len(s), first) + 1, PyBound(Len(s), last))

RECURSIVE NpConcatenate(_)
NpConcatenate(ss) == IF ss = <<>> THEN <<>> ELSE ss[1] \o NpConcatenate(Tail(ss))

RECURSIVE SetToSortedSeq(_)
SetToSortedSeq(S) ==
    IF S = {} THEN <<>>
    ELSE LET m == CHOOSE x \in S : \A y \in S : x <= y
         IN  <<m>> \o SetToSortedSeq(S \ {m})

(***************************************************************************)
(* Atoms (ase.Atoms restricted to what the module reads): positions as     *)
(* <<x, y, z>> with z a double, per-atom numbers, and the diagonal of an *)
(* orthogonal cell <<cx, cy, cz>> with cz a double.                      *)
(***************************************************************************)
NoAtoms == [positions |-> <<>>, numbers |-> <<>>, cell |-> <<0, 0, Float(0)>>]

NumAtoms(a) == Len(a.positions)
PositionsZ(a) == [i \in 1..NumAtoms(a) |-> a.positions[i][3]]

\* atoms[index_array]: a new Atoms holding copies of the selected rows
AtomsGetItem(a, idx) ==
    [positions |-> [k \in 1..Len(idx) |-> a.positions[idx[k] + 1]],
     numbers   |-> [k \in 1..Len(idx) |-> a.numbers[idx[k] + 1]],
     cell      |-> a.cell]

\* atoms[boolean_mask]
AtomsGetMask(a, mask) ==
    AtomsGetItem(a, SetToSortedSeq({i \in 0..(NumAtoms(a) - 1) : mask[i + 1]}))

(***************************************************************************)
(* crystal_slice_thicknesses                                               *)
(***************************************************************************)
UniqueBuckets(a, tolerance) ==
    LET z == PositionsZ(a) \o <<Float(0), a.cell[3]>>
    IN  SetToSortedSeq({FFloor(FDiv(z[i], tolerance)) : i \in 1..Len(z)})

Half == FDiv(Float(1), Float(2))

\* np.sort of a sequence of doubles: ascending
RECURSIVE InsertSorted(_, _)
InsertSorted(x, s) ==
    IF s = <<>> THEN <<x>>
    ELSE IF FLe(x, s[1]) THEN <<x>> \o s
    ELSE <<s[1]>> \o InsertSorted(x, Tail(s))

RECURSIVE NpSort(_)
NpSort(s) == IF s = <<>> THEN <<>> ELSE InsertSorted(s[1], NpSort(Tail(s)))

\* (unique + 0.5) * tolerance, the midpoints in bucket order
BucketMidpoints(a, tolerance) ==
    LET u == UniqueBuckets(a, tolerance)
    IN  [i \in 1..Len(u) |-> FMul(FAdd(Float(u[i]), Half), tolerance)]

\* the midpoints sorted ascending (they descend in bucket order when the
\* tolerance is negative)
SlicePositions(a, tolerance) == NpSort(BucketMidpoints(a, tolerance))

NpDiff(s) == [i \in 1..(Len(s) - 1) |-> FSub(s[i + 1], s[i])]

crystal_slice_thicknesses(a, tolerance) ==
    LET slice_thick == NpDiff(SlicePositions(a, tolerance))
    IN  IF NpIsClose(NpSum(slice_thick), a.cell[3])
        THEN [status |-> "ok", value |-> slice_thick]
        ELSE [status |-> "AssertionError", value |-> <<>>]

(***************************************************************************)
(* _validate_slice_thickness.  A thickness specification is                *)
(* [kind |-> "number", value |-> <<t>>] or [kind |-> "sequence",           *)
(* value |-> <<d1, ..., dn>>]; thickness and num_slices are optional.      *)
(***************************************************************************)
\* the slice count rounded down instead of up
NumberOfSlicesFloor(thickness, t) == FFloor(FDiv(thickness, t))

NumberOfSlices(thickness, t) == FCeil(FDiv(thickness, t))

\* thickness / slice_thickness and thickness / n are divisions of Python
\* floats: a zero divisor raises ZeroDivisionError; (x,) * int(n) is empty
\* for a negative n
ResolveNumber(thickness, t) ==
    IF t = Zero THEN [status |-> "ZeroDivisionError", value |-> <<>>]
    ELSE LET n == NumberOfSlices(thickness, t)
         IN  IF n = 0 THEN [status |-> "ZeroDivisionError", value |-> <<>>]
             ELSE [status |-> "ok",
                   value |-> [i \in 1..n |-> FDiv(thickness, Float(n))]]

SumMatches(validated, thickness) == NpIsClose(NpSum(validated), thickness)

_validate_slice_thickness(spec, thickness, num_slices) ==
    IF spec.kind = "number" /\ thickness = None /\ num_slices = None
    THEN [status |-> "RuntimeError", value |-> <<>>]
    ELSE LET resolved ==
                 IF spec.kind = "number" /\ thickness # None
                 THEN ResolveNumber(thickness[1], spec.value[1])
                 ELSE IF spec.kind = "number"
                 THEN [status |-> "ok",
                       value |-> [i \in 1..num_slices[1] |-> spec.value[1]]]
                 ELSE [status |-> "ok", value |-> spec.value]
             validated == resolved.value
         IN  IF resolved.status # "ok" THEN resolved
             ELSE IF thickness # None /\ ~SumMatches(validated, thickness[1])
             THEN [status |-> "RuntimeError", value |-> <<>>]
             ELSE IF num_slices # None /\ Len(validated) # num_slices[1]
             THEN [status |-> "RuntimeError", value |-> <<>>]
             ELSE [status |-> "ok", value |-> validated]

(***************************************************************************)
(* slice_limits: the (entrance, exit) pair of each slice.                  *)
(***************************************************************************)
slice_limits(thick) ==
    LET cum_thickness == <<Float(0)>> \o NpCumsum(thick)
    IN  [i \in 1..(Len(cum_thickness) - 1) |->
            <<cum_thickness[i], cum_thickness[i + 1]>>]

(***************************************************************************)
(* _unpack_item.  An item is [kind |-> "int", start |-> <<i>>,             *)
(* stop |-> None] or [kind |-> "slice", start |-> opt, stop |-> opt].      *)
(***************************************************************************)
Min(a, b) == IF a < b THEN a ELSE b

UnpackFirst(item) ==
    IF item.kind = "int" THEN item.start[1]
    ELSE IF item.start = None THEN 0 ELSE item.start[1]

UnpackLast(item, num_items) ==
    Min(IF item.kind = "int" THEN item.start[1] + 1
        ELSE IF item.stop = None THEN num_items ELSE item.stop[1],
        num_items)

UnpackRaises(first_index, last_index) == first_index >= last_index

_unpack_item(item, num_items) ==
    LET first_index == UnpackFirst(item)
        last_index == UnpackLast(item, num_items)
    IN  IF UnpackRaises(first_index, last_index)
        THEN [status |-> "IndexError", first |-> 0, last |-> 0]
        ELSE [status |-> "ok", first |-> first_index, last |-> last_index]

(***************************************************************************)
(* BaseSlicedAtoms.__init__ and the variants' constructors.                *)
(***************************************************************************)
\* np.digitize with right=True: bins[i-1] < x <= bins[i]
NpDigitizeRight(x, bins) == Cardinality({i \in 1..Len(bins) : FLt(bins[i], x)})

\* np.digitize(x, bins) for increasing bins: the i with bins[i-1] <= x < bins[i]
NpDigitize(x, bins) == Cardinality({i \in 1..Len(bins) : FLe(bins[i], x)})

\* label_to_index(labels, max_label): for each label 0..max_label the indices
\* (0-based, ascending) of the entries carrying it
label_to_index(labels, max_label) ==
    [l \in 1..(max_label + 1) |->
        SetToSortedSeq({i \in 0..(Len(labels) - 1) : labels[i + 1] = l - 1})]

SliceLabels(a, thick) ==
    [i \in 1..NumAtoms(a) |-> NpDigitize(PositionsZ(a)[i], NpCumsum(thick))]

SliceIndex(a, thick) == label_to_index(SliceLabels(a, thick), Len(thick) - 1)

(***************************************************************************)
(* Object identity.  atoms[...] returns a new Atoms whose arrays and cell  *)
(* are copies, so the writes of a query land on the copy: the pair is the  *)
(* source structure and the returned structure after those writes.         *)
(***************************************************************************)
\* the cell shared between the source and the structure taken from it
WriteThroughCell(source, copy) ==
    [source |-> [source EXCEPT !.cell = copy.cell], result |-> copy]

WriteToCopy(source, copy) == [source |-> source, result |-> copy]

SetCellZ(a, v) == [a EXCEPT !.cell[3] = v]
ShiftZ(a, d) ==
    [a EXCEPT !.positions =
        [i \in 1..NumAtoms(a) |-> [a.positions[i] EXCEPT ![3] = FSub(@, d)]]]
FilterNumber(a, atomic_number) ==
    AtomsGetMask(a, [i \in 1..NumAtoms(a) |-> a.numbers[i] = atomic_number])

Raise(self, error) == [status |-> error, atoms |-> NoAtoms, source |-> self.atoms]
Return(w) == [status |-> "ok", atoms |-> w.result, source |-> w.source]

(***************************************************************************)
(* SliceIndexedAtoms.get_atoms_in_slices                                   *)
(***************************************************************************)
LastSlice(first_slice, last_slice) ==
    IF last_slice = None THEN first_slice ELSE last_slice[1]

IndexedThickness(self, first_slice, last) ==
    NpSum(PySlice(self.slice_thickness, first_slice, last))

IndexedShift(self, first_slice) ==
    NpSum(PySlice(self.slice_thickness, 0, first_slice))

IndexedRebase(self, in_slice, first_slice, last, atomic_number) ==
    LET picked == AtomsGetItem(self.atoms, in_slice)
        kept == IF atomic_number = None THEN picked
                ELSE FilterNumber(picked, atomic_number[1])
    IN  Return(WriteToCopy(self.atoms,
            ShiftZ(SetCellZ(kept, IndexedThickness(self, first_slice, last)),
                   IndexedShift(self, first_slice))))

IndexedGetAtomsInSlices(self, first_slice, last_slice, atomic_number) ==
    LET last == LastSlice(first_slice, last_slice)
    IN  IF last - first_slice < 2
        THEN IF ~PyIndexOk(self.slice_index, first_slice)
             THEN Raise(self, "IndexError")
             ELSE IndexedRebase(self, PyIndex(self.slice_index, first_slice),
                                first_slice, last, atomic_number)
        ELSE LET parts == PySlice(self.slice_index, first_slice, last)
             IN  IF parts = <<>>
                 THEN Raise(self, "ValueError")
                 ELSE IndexedRebase(self, NpConcatenate(parts),
                                    first_slice, last, atomic_number)

(***************************************************************************)
(* SlicedAtoms.get_atoms_in_slices                                         *)
(***************************************************************************)
\* the upper end of the interval taken closed
RangeInSliceClosed(self, a, b, atomic_number) ==
    [i \in 1..NumAtoms(self.atoms) |->
        /\ FLe(FSub(a, self.z_padding), PositionsZ(self.atoms)[i])
        /\ FLe(PositionsZ(self.atoms)[i], FAdd(b, self.z_padding))
        /\ (atomic_number = None \/ self.atoms.numbers[i] = atomic_number[1])]

RangeInSlice(self, a, b, atomic_number) ==
    [i \in 1..NumAtoms(self.atoms) |->
        /\ FLe(FSub(a, self.z_padding), PositionsZ(self.atoms)[i])
        /\ FLt(PositionsZ(self.atoms)[i], FAdd(b, self.z_padding))
        /\ (atomic_number = None \/ self.atoms.numbers[i] = atomic_number[1])]

RangeCell(a, b) == FSub(b, a)

RangeExitIndex(first_slice, last_slice) == LastSlice(first_slice, last_slice)

RangeGetAtomsInSlices(self, first_slice, last_slice, atomic_number) ==
    LET limits == slice_limits(self.slice_thickness)
        last == RangeExitIndex(first_slice, last_slice)
    IN  IF ~PyIndexOk(limits, first_slice) \/ ~PyIndexOk(limits, last)
        THEN Raise(self, "IndexError")
        ELSE LET a == PyIndex(limits, first_slice)[1]
                 b == PyIndex(limits, last)[2]
                 picked == AtomsGetMask(self.atoms,
                               RangeInSlice(self, a, b, atomic_number))
             IN  Return(WriteToCopy(self.atoms,
                     [picked EXCEPT !.cell =
                         <<picked.cell[1], picked.cell[2], RangeCell(a, b)>>]))

get_atoms_in_slices(self, first_slice, last_slice, atomic_number) ==
    IF self.variant = "indexed"
    THEN IndexedGetAtomsInSlices(self, first_slice, last_slice, atomic_number)
    ELSE RangeGetAtomsInSlices(self, first_slice, last_slice, atomic_number)

(***************************************************************************)
(* BaseSlicedAtoms.__getitem__ and generate_atoms_in_slices                *)
(***************************************************************************)
getitem(self, item) ==
    LET u == _unpack_item(item, Len(self.slice_thickness))
    IN  IF u.status # "ok" THEN Raise(self, u.status)
        ELSE get_atoms_in_slices(self, u.first, Some(u.last), None)

\* generate_atoms_in_slices(first_slice, last_slice, atomic_number) runs none
\* of its body: the call returns a generator holding the arguments.  A
\* generator is [i, last_slice, atomic_number]: the next index of the loop
\* (first_slice before the body starts), the loop's end (None until the body
\* resolves it) and the filter.
NewGenerator(first_slice, last_slice, atomic_number) ==
    [i |-> first_slice, last_slice |-> last_slice,
     atomic_number |-> atomic_number]

\* next(generator): the body runs to its next yield.  The end of the range
\* is StopIteration; an exception of get_atoms_in_slices leaves the
\* generator through next() and finishes it.
generate_atoms_in_slices(self, g) ==
    LET last_slice == IF g.last_slice = None THEN Len(self.slice_thickness)
                      ELSE g.last_slice[1]
    IN  IF g.i >= last_slice
        THEN [status |-> "StopIteration", atoms |-> NoAtoms,
              source |-> self.atoms, generator |-> None]
        ELSE LET r == get_atoms_in_slices(self, g.i, None, g.atomic_number)
             IN  [status |-> r.status, atoms |-> r.atoms, source |-> r.source,
                  generator |->
                      IF r.status = "ok"
                      THEN Some(NewGenerator(g.i + 1, Some(last_slice),
                                             g.atomic_number))
                      ELSE None]

(***************************************************************************)
(* Inputs.                                                                 *)
(***************************************************************************)
Heights == {0, 10, 200000}

\* z of an atom: a fifth of the height, the height less 1e-5 of it (the
\* height itself for a low cell) and the height
ZChoices(H) == {H \div 5, H - (H \div 100000), H}

AtomsOf(H, zs) ==
    [positions |-> [i \in 1..Len(zs) |-> <<i, 2 * i, Float(zs[i])>>],
     numbers   |-> [i \in 1..Len(zs) |-> IF i % 2 = 1 THEN 6 ELSE 14],
     cell      |-> <<4, 5, Float(H)>>]

\* up to MaxAtoms atoms, listed from the top of the cell down
AtomsChoices ==
    UNION {{AtomsOf(H, zs) :
               zs \in {f \in [1..n -> ZChoices(H)] :
                           \A i \in 1..(n - 1) : f[i] >= f[i + 1]}} :
              <<H, n>> \in Heights \X (1..MaxAtoms)}

\* Thicknesses of explicit sequences: a fifth and three tenths of the height,
\* and the half less 1e-5 of the height (the half itself for a low cell)
ThickChoices(H) == {H \div 5, (3 * H) \div 10, (H \div 2) - (H \div 100000)}

\* Single numbers: whole ones below and above the height, and the fractions
\* H / 3 (three slices of an inexact thickness) and 7 * H / 40 (six slices)
NumberSpecs(H) ==
    {[kind |-> "number", value |-> <<t>>] :
        t \in {Float(H \div 3), Float(H \div 2), Float(H + 2),
               FDiv(Float(H), Float(3)), FDiv(Float(7 * H), Float(40))}}

SequenceSpecs(H) ==
    UNION {{[kind |-> "sequence", value |-> [i \in 1..n |-> Float(ds[i])]] :
               ds \in [1..n -> ThickChoices(H)]} : n \in 1..MaxSlices}

StrSpec == [kind |-> "str", value |-> <<>>]

SpecChoices(H) == NumberSpecs(H) \cup SequenceSpecs(H) \cup {StrSpec}

PadChoices(H) == {Float(0), Float((3 * H) \div 10)}

\* 0.2, 3 and 4, and the negative -2, which the function accepts
Tolerances == {FDiv(Float(1), Float(5)), Float(3), Float(4), Float(-2)}

IndexChoices == (-1)..MaxSlices
OptIndex == {None} \cup {Some(i) : i \in IndexChoices}
OptStart == {None, Some(-1), Some(0), Some(1)}
NumberFilters == {None, Some(14)}
GeneratorFirst == {0, 1}
GeneratorLast == {None, Some(1), Some(MaxSlices)}

\* the items indexed while a generator is suspended
InterleavedItems ==
    {[kind |-> "int", start |-> Some(1), stop |-> None]}

Items ==
    {[kind |-> "int", start |-> Some(i), stop |-> None] : i \in IndexChoices}
    \cup {[kind |-> "slice", start |-> a, stop |-> b] :
              <<a, b>> \in OptStart \X OptIndex}

(***************************************************************************)
(* State machine.  phase: "new" before any call, "ready" while a sliced    *)
(* object exists and no call is in progress, "returned" when a query has   *)
(* handed its outcome to the caller, "failed" when the constructor raised, *)
(* "done" after a call of crystal_slice_thicknesses.  built records the    *)
(* object as the constructor left it, and the specification it was given.  *)
(* generator is the generator the caller holds (None when it holds none):  *)
(* generate_atoms_in_slices creates it, each next() runs it to its next    *)
(* yield, and the caller is free to make other calls in between.  The      *)
(* caller drops a generator that has finished.  An action binds the        *)
(* outcome of the operation it models with \E over a one-element set.      *)
(***************************************************************************)
Self ==
    [variant |-> variant, atoms |-> atoms, slice_thickness |-> slice_thickness,
     slice_index |-> slice_index, z_padding |-> z_padding]

NoCall == [op |-> "none"]
NoResult == [status |-> "none"]

Init ==
    /\ phase = "new"
    /\ variant = "none"
    /\ atoms = NoAtoms
    /\ slice_thickness = <<>>
    /\ slice_index = <<>>
    /\ z_padding = Float(0)
    /\ built = [spec |-> StrSpec, self |-> <<>>]
    /\ generator = None
    /\ call = NoCall
    /\ result = NoResult

\* crystal_slice_thicknesses(atoms, tolerance)
CrystalSliceThicknesses ==
    /\ phase = "new"
    /\ \E a \in AtomsChoices, tolerance \in Tolerances :
          /\ call' = [op |-> "crystal", atoms |-> a, tolerance |-> tolerance]
          /\ result' = crystal_slice_thicknesses(a, tolerance)
    /\ phase' = "done"
    /\ UNCHANGED <<variant, atoms, slice_thickness, slice_index, z_padding,
                   built, generator>>

\* BaseSlicedAtoms.__init__ raising: a str specification, or a thickness
\* sequence rejected by _validate_slice_thickness.  No object is produced.
ConstructRaises ==
    /\ phase = "new"
    /\ \E v \in {"indexed", "range"}, a \in AtomsChoices :
        \E spec \in SpecChoices(FFloor(a.cell[3])) :
          \E r \in {IF spec.kind = "str"
                    THEN [status |-> "NotImplementedError", value |-> <<>>]
                    ELSE _validate_slice_thickness(spec, Some(a.cell[3]),
                                                   None)} :
              /\ r.status # "ok"
              /\ call' = [op |-> "init", variant |-> v, height |-> a.cell[3],
                          spec |-> spec]
              /\ result' = [status |-> r.status]
    /\ phase' = "failed"
    /\ UNCHANGED <<variant, atoms, slice_thickness, slice_index, z_padding,
                   built, generator>>

Constructed(v, a, spec, thick, index, pad) ==
    /\ variant' = v
    /\ atoms' = a
    /\ slice_thickness' = thick
    /\ slice_index' = index
    /\ z_padding' = pad
    /\ built' = [spec |-> spec,
                 self |-> [variant |-> v, atoms |-> a, slice_thickness |-> thick,
                           slice_index |-> index, z_padding |-> pad]]
    /\ phase' = "ready"
    /\ UNCHANGED <<generator, call, result>>

\* SliceIndexedAtoms(atoms, slice_thickness)
ConstructIndexed ==
    /\ phase = "new"
    /\ \E a \in AtomsChoices :
        \E spec \in SpecChoices(FFloor(a.cell[3])) \ {StrSpec} :
          \E r \in {_validate_slice_thickness(spec, Some(a.cell[3]), None)} :
              /\ r.status = "ok"
              /\ Constructed("indexed", a, spec, r.value,
                             SliceIndex(a, r.value), Float(0))

\* SlicedAtoms(atoms, slice_thickness, z_padding=pad)
ConstructRange ==
    /\ phase = "new"
    /\ \E a \in AtomsChoices :
        \E spec \in SpecChoices(FFloor(a.cell[3])) \ {StrSpec},
           pad \in PadChoices(FFloor(a.cell[3])) :
          \E r \in {_validate_slice_thickness(spec, Some(a.cell[3]), None)} :
              /\ r.status = "ok"
              /\ Constructed("range", a, spec, r.value, <<>>, pad)

\* self.get_atoms_in_slices(first_slice, last_slice, atomic_number).  The
\* caller may call it at any time, also between two steps of a generator;
\* while a generator is suspended the arguments come from a smaller set.
GetAtomsInSlices ==
    /\ phase = "ready"
    /\ \E first_slice \in (IF generator = None THEN IndexChoices ELSE {0}),
          last_slice \in (IF generator = None THEN OptIndex
                          ELSE {Some(MaxSlices)}),
          atomic_number \in (IF generator = None THEN NumberFilters
                             ELSE {None}) :
          \E r \in {get_atoms_in_slices(Self, first_slice, last_slice,
                                        atomic_number)} :
              /\ call' = [op |-> "get", first |-> first_slice,
                          last |-> last_slice, number |-> atomic_number]
              /\ result' = [status |-> r.status, atoms |-> r.atoms]
              /\ atoms' = r.source
    /\ phase' = "returned"
    /\ UNCHANGED <<variant, slice_thickness, slice_index, z_padding, built,
                   generator>>

\* self[item], at any time; from InterleavedItems while a generator is
\* suspended
GetItem ==
    /\ phase = "ready"
    /\ \E item \in (IF generator = None THEN Items ELSE InterleavedItems) :
          \E r \in {getitem(Self, item)} :
              /\ call' = [op |-> "getitem", item |-> item,
                          unpacked |-> _unpack_item(item, Len(slice_thickness))]
              /\ result' = [status |-> r.status, atoms |-> r.atoms]
              /\ atoms' = r.source
    /\ phase' = "returned"
    /\ UNCHANGED <<variant, slice_thickness, slice_index, z_padding, built,
                   generator>>

\* g = self.generate_atoms_in_slices(first_slice, last_slice, atomic_number):
\* the caller holds a generator; nothing of the object is read yet
GenerateAtomsInSlices ==
    /\ phase = "ready"
    /\ generator = None
    /\ \E first_slice \in GeneratorFirst, last_slice \in GeneratorLast,
          atomic_number \in NumberFilters :
          generator' = Some(NewGenerator(first_slice, last_slice,
                                         atomic_number))
    /\ UNCHANGED <<phase, variant, atoms, slice_thickness, slice_index,
                   z_padding, built, call, result>>

\* next(g): one step of the generator, on the object as it is now
GeneratorNext ==
    /\ phase = "ready"
    /\ generator # None
    /\ \E g \in {generator[1]} :
        \E r \in {generate_atoms_in_slices(Self, g)} :
           /\ call' = [op |-> "next", i |-> g.i, number |-> g.atomic_number]
           /\ result' = [status |-> r.status, atoms |-> r.atoms]
           /\ atoms' = r.source
           /\ generator' = r.generator
    /\ phase' = "returned"
    /\ UNCHANGED <<variant, slice_thickness, slice_index, z_padding, built>>

\* The caller is done with the outcome of a query; the object stays.
Release ==
    /\ phase = "returned"
    /\ phase' = "ready"
    /\ call' = NoCall
    /\ result' = NoResult
    /\ UNCHANGED <<variant, atoms, slice_thickness, slice_index, z_padding,
                   built, generator>>

Next ==
    \/ CrystalSliceThicknesses
    \/ ConstructRaises
    \/ ConstructIndexed
    \/ ConstructRange
    \/ GetAtomsInSlices
    \/ GetItem
    \/ GenerateAtomsInSlices
    \/ GeneratorNext
    \/ Release

Spec == Init /\ [][Next]_vars

(***************************************************************************)
(* Properties.                                                             *)
(***************************************************************************)
IsObject == phase \in {"ready", "returned"}
NumSlices == Len(slice_thickness)
Entry(b) == NpSum(SubSeq(slice_thickness, 1, b - 1))
Exit(b) == NpSum(SubSeq(slice_thickness, 1, b))
Height == atoms.cell[3]
AtomIndices == 0..(NumAtoms(atoms) - 1)
ZOf(i) == atoms.positions[i + 1][3]

InBucket(i, b) == \E k \in 1..Len(slice_index[b]) : slice_index[b][k] = i
Occurrences(i) ==
    Cardinality({p \in UNION {{<<b, k>> : k \in 1..Len(slice_index[b])} :
                                 b \in 1..Len(slice_index)} :
                    slice_index[p[1]][p[2]] = i})
InOwnBucket(i) ==
    /\ Occurrences(i) = 1
    /\ \E b \in 1..Len(slice_index) :
          InBucket(i, b) /\ FLe(Entry(b), ZOf(i)) /\ FLt(ZOf(i), Exit(b))

\* C1 as stated: every atom with z in [0, box.z) is in exactly one bucket,
\* the one with entry <= z < exit, and an atom at z = box.z is in no bucket.
C1_PartitionByBox ==
    (phase = "ready" /\ variant = "indexed") =>
        /\ Len(slice_index) = NumSlices
        /\ \A i \in AtomIndices :
              /\ (FLe(Float(0), ZOf(i)) /\ FLt(ZOf(i), Height)) => InOwnBucket(i)
              /\ ZOf(i) = Height => Occurrences(i) = 0

\* C1 (amended): there are num_slices buckets; every atom with z in
\* [0, sum of the thicknesses) is in exactly one bucket, the one with
\* entry <= z < exit, and an atom with z at or above the sum of the
\* thicknesses is in no bucket.
C1_Partition ==
    (phase = "ready" /\ variant = "indexed") =>
        /\ Len(slice_index) = NumSlices
        /\ \A i \in AtomIndices :
              IF FLe(Float(0), ZOf(i)) /\ FLt(ZOf(i), Exit(NumSlices))
              THEN InOwnBucket(i)
              ELSE Occurrences(i) = 0

\* An atom exactly on an interior boundary sits in the slice beginning there.
C1_Witness ==
    /\ IsObject /\ variant = "indexed"
    /\ \E i \in AtomIndices : \E b \in 2..NumSlices :
          ZOf(i) = Entry(b) /\ InBucket(i, b)

\* The slices first..last-1 (0-based, last exclusive) are slices of the object.
ValidRange(first, last) == 0 <= first /\ first < last /\ last <= NumSlices
SummedThickness(first, last) == NpSum(SubSeq(slice_thickness, first + 1, last))
AllInsideBox ==
    \A i \in AtomIndices : FLe(Float(0), ZOf(i)) /\ FLt(ZOf(i), Height)
Rebased(a, first, last) ==
    /\ a.cell[3] = SummedThickness(first, last)
    /\ AllInsideBox =>
          \A k \in 1..NumAtoms(a) :
              /\ FLe(Float(0), a.positions[k][3])
              /\ FLt(a.positions[k][3], SummedThickness(first, last))

\* C2 as stated: every query of a SliceIndexedAtoms over slices of the object
\* returns a structure whose cell height is the summed thickness of the
\* queried slices, with local z in [0, that height) when the source z lie in
\* [0, box.z); a query with the last index omitted, as issued by
\* generate_atoms_in_slices, and indexing with i return the cell height of
\* slice i alone.
C2_Rebasing ==
    (phase = "returned" /\ variant = "indexed") =>
        /\ (call.op = "get" /\ call.last = None
                /\ ValidRange(call.first, call.first + 1)) =>
              /\ result.status = "ok"
              /\ Rebased(result.atoms, call.first, call.first + 1)
        /\ (call.op = "get" /\ call.last # None
                /\ ValidRange(call.first, LastSlice(call.first, call.last))) =>
              /\ result.status = "ok"
              /\ Rebased(result.atoms, call.first, call.last[1])
        /\ (call.op = "getitem" /\ call.unpacked.status = "ok"
                /\ ValidRange(call.unpacked.first, call.unpacked.last)) =>
              /\ result.status = "ok"
              /\ Rebased(result.atoms, call.unpacked.first, call.unpacked.last)
        /\ (call.op = "next" /\ result.status # "StopIteration"
                /\ ValidRange(call.i, call.i + 1)) =>
              /\ result.status = "ok"
              /\ Rebased(result.atoms, call.i, call.i + 1)

\* C3 as stated: indexing a SlicedAtoms with an item that _unpack_item
\* resolves to [first, last), 0 <= first < last <= num_slices, succeeds and
\* returns a cell height equal to the summed thickness of slices
\* first..last-1.
C3_ItemExtent ==
    (phase = "returned" /\ variant = "range" /\ call.op = "getitem"
        /\ call.unpacked.status = "ok"
        /\ ValidRange(call.unpacked.first, call.unpacked.last)) =>
        /\ result.status = "ok"
        /\ result.atoms.cell[3] =
               SummedThickness(call.unpacked.first, call.unpacked.last)

\* n * t = H in real numbers: the product taken without rounding
DividesInto(t, n, H) == Canon(t[1], BMul(BFromInt(n), t[2]), t[3]) = H

\* What C4 states of a positive number t resolved against the height H but
\* for the sum: n slices with n = ceil(H / t), each of thickness H / n;
\* t > H gives one slice of thickness H, and t dividing H exactly gives
\* H / t slices of thickness t.
ResolvedEvenly ==
    LET t == built.spec.value[1]
        n == NumSlices
    IN  /\ n >= 1
        /\ FLt(Float(n - 1), FDiv(Height, t))
        /\ FLe(FDiv(Height, t), Float(n))
        /\ \A i \in 1..n : slice_thickness[i] = FDiv(Height, Float(n))
        /\ FLt(Height, t) => slice_thickness = <<Height>>
        /\ DividesInto(t, n, Height) =>
              /\ Float(n) = FDiv(Height, t)
              /\ \A i \in 1..n : slice_thickness[i] = t

\* the spacing of the doubles next to 1
Epsilon == <<1, <<1>>, -52>>

\* |sum - H| <= n * 2^-52 * H: what the roundings of the division H / n and
\* of the n - 1 additions can add up to
SumRounded ==
    FLe(FAbs(FSub(NpSum(slice_thickness), Height)),
        FMul(Float(NumSlices), FMul(Epsilon, Height)))

\* a single number t > 0 given for a box of height H > 0 (at H = 0 the
\* stated count ceil(H / t) is 0 and the stated thickness H / n undefined)
NumberResolved ==
    /\ phase = "ready" /\ built.spec.kind = "number"
    /\ FLt(Zero, built.spec.value[1]) /\ FLt(Zero, Height)

NumberRaised ==
    /\ phase = "failed" /\ call.spec.kind = "number"
    /\ FLt(Zero, call.spec.value[1]) /\ FLt(Zero, call.height)

\* C4 as stated: a single number t against height H resolves, for every
\* positive t, to n = ceil(H / t) slices, each of thickness H / n, whose sum
\* is H; t > H gives one slice of thickness H, and t dividing H gives H / t
\* slices of thickness t.
C4_ExactSum ==
    /\ ~NumberRaised
    /\ NumberResolved =>
          /\ ResolvedEvenly
          /\ NpSum(slice_thickness) = Height

\* C4 (amended): a single number t against height H resolves, for every
\* positive t, to n = ceil(H / t) slices, each of thickness H / n, whose sum
\* is H up to the rounding of the n float operations,
\* |sum - H| <= n * 2^-52 * H (exactly H for t = 3, H = 10: four slices of
\* 2.5); t > H gives one slice of thickness H, and t dividing H exactly
\* gives H / t slices of thickness t.
C4_NumberResolution ==
    /\ ~NumberRaised
    /\ NumberResolved =>
          /\ ResolvedEvenly
          /\ SumRounded
          /\ (Height = Float(10) /\ built.spec.value[1] = Float(3)) =>
                NpSum(slice_thickness) = Height

\* A thickness that does not divide the height: the requested value is
\* adjusted (height 10, t = 3: four slices of 5/2).
C4_Witness ==
    /\ IsObject /\ built.spec.kind = "number"
    /\ built.spec.value[1] = Float(3) /\ Height = Float(10)
    /\ slice_thickness = [i \in 1..4 |-> FDiv(Float(5), Float(2))]
    /\ NpSum(slice_thickness) = Float(10)

\* |a - b| <= 1e-8 * |b|: the relative tolerance within which a thickness
\* sequence is to sum to the box height
RelativeTolerance == FDiv(Float(1), Float(100000000))

SumsTo(a, b) ==
    FLe(FAbs(FSub(a, b)), FMul(RelativeTolerance, FAbs(b)))

\* the boundary table starts at 0, is contiguous and ends at the box height
BoundaryTable ==
    LET limits == slice_limits(slice_thickness)
    IN  /\ Len(limits) = NumSlices
        /\ limits[1][1] = Float(0)
        /\ \A i \in 1..(NumSlices - 1) : limits[i][2] = limits[i + 1][1]
        /\ SumsTo(limits[NumSlices][2], Height)

WithinTolerance(a, b) == NpIsClose(a, b)

\* C5 as stated, with "equals" read at the relative tolerance of 1e-8: every
\* constructed object has a thickness sequence whose sum is the box height
\* (an explicit sequence with another sum raises and yields no object), and
\* the boundary table starts at 0, is contiguous and ends at box.z.
C5_SumIsHeight ==
    /\ phase = "ready" =>
          (SumsTo(NpSum(slice_thickness), Height) /\ BoundaryTable)
    /\ (phase = "failed" /\ call.spec.kind = "sequence") =>
          /\ result.status = "RuntimeError"
          /\ NpSum(call.spec.value) # call.height
          /\ variant = "none" /\ atoms = NoAtoms /\ slice_thickness = <<>>

\* C6 as stated: crystal_slice_thicknesses returns, for atoms with z in
\* [0, box height] and a positive tolerance, thicknesses whose sum is the box
\* height, so that its closing assertion never fails.
C6_CrystalSum ==
    (phase = "done" /\ call.op = "crystal" /\ FLt(Zero, call.tolerance)) =>
        /\ result.status = "ok"
        /\ WithinTolerance(NpSum(result.value), call.atoms.cell[3])

\* C7 as stated: get_atoms_in_slices(first, last) with a slice index at or
\* beyond num_slices (first >= num_slices, or last > num_slices) raises; it
\* never returns the atoms of a clamped, smaller range.
C7_OutOfRangeRaises ==
    (phase = "returned" /\ call.op = "get"
        /\ (call.first >= NumSlices
               \/ (call.last # None /\ call.last[1] > NumSlices))) =>
        result.status # "ok"

RangeEntry == PyIndex(slice_limits(slice_thickness), call.first)[1]
RangeExit ==
    PyIndex(slice_limits(slice_thickness), LastSlice(call.first, call.last))[2]
PaddedMember(i, a, b, pad) ==
    /\ FLe(FSub(a, pad), ZOf(i))
    /\ FLt(ZOf(i), FAdd(b, pad))
    /\ (call.number = None \/ atoms.numbers[i + 1] = call.number[1])
PositionSet(a) == {a.positions[k] : k \in 1..NumAtoms(a)}

\* C8: a successful query of a SlicedAtoms with entry boundary a and exit
\* boundary b returns exactly the atoms (of the requested species) with z in
\* [a - z_padding, b + z_padding), at their source coordinates, in a cell
\* with the source's x and y extents and z extent b - a; the same query with
\* a smaller padding returns a subset of those atoms in the same cell.
C8_PaddingMembership ==
    (phase = "returned" /\ variant = "range" /\ call.op = "get"
        /\ result.status = "ok") =>
        LET a == RangeEntry
            b == RangeExit
            members == {i \in AtomIndices : PaddedMember(i, a, b, z_padding)}
            returned == PositionSet(result.atoms)
        IN  /\ NumAtoms(result.atoms) = Cardinality(members)
            /\ returned = {atoms.positions[i + 1] : i \in members}
            /\ result.atoms.cell = <<atoms.cell[1], atoms.cell[2], FSub(b, a)>>
            /\ \A pad \in PadChoices(FFloor(Height)) :
                  FLt(pad, z_padding) =>
                      LET r == get_atoms_in_slices(
                                   [Self EXCEPT !.z_padding = pad],
                                   call.first, call.last, call.number)
                      IN  /\ r.status = "ok"
                          /\ PositionSet(r.atoms) \subseteq returned
                          /\ r.atoms.cell = result.atoms.cell

\* A padded query returning an atom that lies outside [a, b).
C8_Witness ==
    /\ phase = "returned" /\ variant = "range" /\ call.op = "get"
    /\ result.status = "ok" /\ z_padding # Float(0)
    /\ \E k \in 1..NumAtoms(result.atoms) :
          \/ FLt(result.atoms.positions[k][3], RangeEntry)
          \/ FLe(RangeExit, result.atoms.positions[k][3])

\* C9: once constructed, the object (source positions, numbers and cell,
\* thickness sequence, buckets, padding) stays as the constructor left it
\* through every query, also those made between two steps of a generator,
\* and the outcome of a get_atoms_in_slices call, of an item indexing and of
\* a generator step is the outcome the same query has on the object as
\* constructed.
C9_QueriesLeaveObject ==
    IsObject =>
        /\ Self = built.self
        /\ (phase = "returned" /\ call.op = "get") =>
              LET r == get_atoms_in_slices(built.self, call.first, call.last,
                                           call.number)
              IN  result = [status |-> r.status, atoms |-> r.atoms]
        /\ (phase = "returned" /\ call.op = "getitem") =>
              LET r == getitem(built.self, call.item)
              IN  result = [status |-> r.status, atoms |-> r.atoms]
        /\ (phase = "returned" /\ call.op = "next"
                /\ result.status # "StopIteration") =>
              LET r == get_atoms_in_slices(built.self, call.i, None,
                                           call.number)
              IN  result = [status |-> r.status, atoms |-> r.atoms]

\* A query has returned a structure with its own cell height and shifted
\* coordinates.
C9_Witness ==
    /\ phase = "returned" /\ call.op = "get" /\ result.status = "ok"
    /\ NumAtoms(result.atoms) >= 1
    /\ result.atoms.cell # atoms.cell
    /\ result.atoms.positions[1] \notin PositionSet(atoms)

\* C10 as stated: _unpack_item raises or returns (first, last) with
\* 0 <= first < last <= num_items, for every int and every slice.
C10_UnpackBounds ==
    (phase = "returned" /\ call.op = "getitem") =>
        \/ call.unpacked.status # "ok"
        \/ /\ 0 <= call.unpacked.first
           /\ call.unpacked.first < call.unpacked.last
           /\ call.unpacked.last <= NumSlices

====
